---- MODULE Spec2Model ----
(***************************************************************************)
(* Model of the timesheets front end's authenticated request wrapper,      *)
(* makeAPICall (src/src/app/utils/api.ts), run by several concurrent       *)
(* callers on the browser's single-threaded event loop.  Every action is    *)
(* one run-to-suspension step of the async function: the code between two  *)
(* awaits executes atomically.                                              *)
(***************************************************************************)
EXTENDS Naturals, Integers, FiniteSets, Sequences, TLC

\* ------------------------------------------------------------------ bounds
NumCallers == 2
NumNewTokens == 1

Callers == 1..NumCallers

\* ------------------------------------------------------------------ values
\* A missing value: localStorage.getItem() === null, an absent header.
Absent == <<>>

\* The token pair written by a login, and the access tokens the refresh
\* endpoint may hand out.
InitialAccess == <<"T", 1>>
InitialRefresh == <<"R", 1>>
NewAccessTokens == {<<"T", n>> : n \in 2..(1 + NumNewTokens)}

\* `Bearer ${token}`
Bearer(token) == <<"Bearer", token>>

HeaderNames == {"Content-Type", "Authorization", "X-Trace"}

\* { ...a, ...b } on header objects: b's entries win.
SpreadHeaders(a, b) == [h \in HeaderNames |-> IF b[h] # Absent THEN b[h] ELSE a[h]]

NoHeaders == [h \in HeaderNames |-> Absent]

\* DefaultHeaders interpolating the token without testing it: "Bearer null".
DefaultHeadersAlwaysAuth(token) ==
  [h \in HeaderNames |->
     IF h = "Content-Type" THEN <<"application/json">>
     ELSE IF h = "Authorization" THEN Bearer(token)
     ELSE Absent]

\* defaultOptions.headers
DefaultHeaders(token) ==
  [h \in HeaderNames |->
     IF h = "Content-Type" THEN <<"application/json">>
     ELSE IF h = "Authorization" /\ token # Absent THEN Bearer(token)
     ELSE Absent]

\* MergedHeaders with the spreads in the other order: the defaults win.
MergedHeadersDefaultsWin(token, optHeaders) ==
  SpreadHeaders(optHeaders, DefaultHeaders(token))

\* mergedOptions.headers
MergedHeaders(token, optHeaders) == SpreadHeaders(DefaultHeaders(token), optHeaders)

\* RetryHeaders without the Authorization override: the retry keeps the
\* header the primary request was sent with.
RetryHeadersStale(merged, access) == merged

\* headers of the request re-sent after a refresh
RetryHeaders(merged, access) ==
  SpreadHeaders(merged, [h \in HeaderNames |->
                           IF h = "Authorization" THEN Bearer(access) ELSE Absent])

\* options.headers the callers pass: none, or an Authorization and a
\* Content-Type of their own plus a custom header.
CallerHeaders ==
  { NoHeaders,
    [h \in HeaderNames |->
       IF h = "Authorization" THEN <<"Basic">>
       ELSE IF h = "Content-Type" THEN <<"text/plain">>
       ELSE <<"trace">>] }

\* HTTP statuses the backend answers a request with.
Statuses == {200, 401, 500}

\* a local that has not been assigned yet
Unread == <<"unread">>

NoResult == [kind |-> "none", from |-> "none", status |-> 0]
NoResponse == [from |-> "none", status |-> 0]

VARIABLES
  access_token,    \* localStorage 'access_token'
  refresh_token,   \* localStorage 'refresh_token'
  location,        \* window.location.href
  pc,              \* per caller: where its makeAPICall invocation is suspended
  options,         \* per caller: options.headers, as the caller passed them
  mergedHeaders,   \* per caller: mergedOptions.headers, the primary request's headers
  response,        \* per caller: the primary request's response
  refreshBody,     \* per caller: body of its POST to /token/refresh/ (Absent: none sent)
  retryHeaders,    \* per caller: headers of its re-sent request (Absent: none sent)
  result,          \* per caller: what the invocation settled with
  refreshToken,    \* per caller: the local refreshToken read after a 401 (Unread before)
  access,          \* per caller: the access token its refresh response carried
  refreshOutcome,  \* per caller: how its refresh call ended
  sends,           \* per caller: number of times its request was sent (primary and retries)
  refreshes,       \* per caller: number of POSTs to the refresh endpoint it issued
  overlapped       \* per caller: callers whose refresh was in flight when its 401 arrived

\* what one invocation holds and has done
locals == <<options, mergedHeaders, response, refreshBody, retryHeaders, refreshToken, access,
            refreshOutcome, sends, refreshes, overlapped>>

\* The state of the pages around the wrapper: the AuthProvider context
\* (unnamed/part_001) and the timesheet page's submitWeek (api.ts MainPage).
VARIABLES
  user,            \* AuthProvider: user state (NoUser: null)
  loading,         \* AuthProvider: loading state
  route,           \* the path last given to router.push
  checkPc,         \* AuthProvider: where checkAuth is
  checkToken,      \* checkAuth: the token its profile request carries (Absent: none sent)
  loginPc,         \* AuthProvider: where login is
  loginOutcome,    \* how the login request ended
  loginResult,     \* what login returned to its caller
  logoutPc,        \* AuthProvider: where logout is
  logoutOutcome,   \* how the logout request ended
  timesheets,      \* MainPage: status of each entry of the timesheets list
  tableData,       \* MainPage: hours of each cell of the table
  dateFrom,        \* MainPage: dateRange.dateFrom of the current render
  saving,          \* MainPage: saving state
  submitPc,        \* MainPage: where submitWeek is
  submitWeekOf,    \* submitWeek: dateRange.dateFrom captured by the running closure
  firstAnswer,     \* submitWeek: how the first submit-week request was answered
  confirmed,       \* submitWeek: answers given to its confirm() dialogs, in order
  submitRequests,  \* submit-week requests sent so far, in order
  notification     \* MainPage: kind of the last notification shown

authVars == <<user, loading, route, checkPc, checkToken, loginPc, loginOutcome, loginResult,
              logoutPc, logoutOutcome>>

submitVars == <<timesheets, tableData, dateFrom, saving, submitPc, submitWeekOf,
                firstAnswer, confirmed, submitRequests, notification>>

\* The state of the other views: MainPage's cell edits (api.ts), TimesheetTable
\* (components/TimesheetTable.tsx), AdminUsers (admin/users/page.tsx) and
\* AdminLayout (unnamed/part_004).
VARIABLES
  pageUser,        \* MainPage: user state (NoUser: null)
  projects,        \* MainPage: the cells whose project is in the projects list
  cellPc,          \* per cell: where the handleCellChange invocation for it is
  editingValues,   \* TimesheetTable: editingValues, from cell key to input text
  currentlySaving, \* TimesheetTable: currentlySaving, a set of cell keys
  currentUser,     \* AdminUsers: currentUser state (NoUser: null)
  users,           \* AdminUsers: ids of the users list
  profilePc,       \* AdminUsers: where loadCurrentUser is
  usersPc,         \* AdminUsers: where fetchUsers is
  deletePc,        \* AdminUsers, per user: where handleDelete(user) is
  deleteRequests,  \* AdminUsers: ids DELETE requests were sent for
  error,           \* AdminUsers: error state
  layoutLoading,   \* AdminLayout: loading state
  isAdmin,         \* AdminLayout: isAdmin state
  layoutUser,      \* AdminLayout: currentUser state (NoUser: null)
  layoutPc         \* AdminLayout: where checkAdminAccess is

editVars == <<pageUser, projects, cellPc>>

tableVars == <<editingValues, currentlySaving>>

usersVars == <<currentUser, users, profilePc, usersPc, deletePc, deleteRequests, error>>

layoutVars == <<layoutLoading, isAdmin, layoutUser, layoutPc>>

morePageVars == <<editVars, tableVars, usersVars, layoutVars>>

pageVars == <<authVars, submitVars, morePageVars>>

\* the variables of the makeAPICall invocations, the token store apart
callVars == <<location, pc, result, locals>>

vars == <<access_token, refresh_token, callVars, pageVars>>

\* Callers whose POST to the refresh endpoint is in flight.
RefreshInFlight == {c \in Callers : pc[c] = "refresh"}

\* ---------------------------------------------- values of the pages' state
NoUser == <<>>
\* data.user of a login or profile response
LoggedUser == <<"user">>

NoLoginResult == [kind |-> "none", success |-> FALSE, error |-> Absent]

\* minimumHours
MinimumHours == 40

NumWeeks == 2
NumEntries == 2
NumCells == 2
NumUsers == 2

Weeks == 1..NumWeeks
Entries == 1..NumEntries
Cells == 1..NumCells
\* user ids of the accounts the backend holds
UserIds == 1..NumUsers

\* status of an entry of the timesheets list ("none": no such entry)
EntryStatuses == {"none", "draft", "submitted"}
\* what a cell of tableData holds
CellValues == {"", "20", "25"}

\* The token store at page load: the pair a login wrote, or nothing.
StoreInit ==
  \E logged \in BOOLEAN :
    /\ access_token = IF logged THEN InitialAccess ELSE Absent
    /\ refresh_token = IF logged THEN InitialRefresh ELSE Absent

\* No makeAPICall invocation started.
CallersIdle ==
  /\ location = "/"
  /\ pc = [c \in Callers |-> "idle"]
  /\ options = [c \in Callers |-> NoHeaders]
  /\ mergedHeaders = [c \in Callers |-> NoHeaders]
  /\ response = [c \in Callers |-> NoResponse]
  /\ refreshBody = [c \in Callers |-> Absent]
  /\ retryHeaders = [c \in Callers |-> Absent]
  /\ result = [c \in Callers |-> NoResult]
  /\ refreshToken = [c \in Callers |-> Unread]
  /\ access = [c \in Callers |-> Absent]
  /\ refreshOutcome = [c \in Callers |-> "none"]
  /\ sends = [c \in Callers |-> 0]
  /\ refreshes = [c \in Callers |-> 0]
  /\ overlapped = [c \in Callers |-> {}]

\* AuthProvider as constructed: useState(null), useState(true), nothing running.
AuthIdle ==
  /\ user = NoUser
  /\ loading = TRUE
  /\ route = "/"
  /\ checkPc = "idle"
  /\ checkToken = Absent
  /\ loginPc = "idle"
  /\ loginOutcome = "none"
  /\ loginResult = NoLoginResult
  /\ logoutPc = "idle"
  /\ logoutOutcome = "none"

\* submitWeek not running, nothing sent, no notification.
SubmitIdle ==
  /\ saving = FALSE
  /\ submitPc = "idle"
  /\ submitWeekOf = 0
  /\ firstAnswer = "none"
  /\ confirmed = <<>>
  /\ submitRequests = <<>>
  /\ notification = "none"

\* MainPage as constructed: useState([]), useState({}), the first week.
PageIdle ==
  /\ timesheets = [e \in Entries |-> "none"]
  /\ tableData = [k \in Cells |-> ""]
  /\ dateFrom = 1
  /\ SubmitIdle

\* MainPage as constructed: no user, no projects, no cell change running.
EditIdle ==
  /\ pageUser = NoUser
  /\ projects = {}
  /\ cellPc = [k \in Cells |-> "idle"]

\* TimesheetTable as constructed: useState({}), useState(new Set()).
TableIdle ==
  /\ editingValues = [key \in {} |-> ""]
  /\ currentlySaving = {}

\* AdminUsers as constructed: useState(null), useState([]), useState('').
UsersIdle ==
  /\ currentUser = NoUser
  /\ users = {}
  /\ profilePc = "idle"
  /\ usersPc = "idle"
  /\ deletePc = [u \in UserIds |-> "idle"]
  /\ deleteRequests = {}
  /\ error = ""

\* AdminLayout as constructed: useState(true), useState(false), useState(null).
LayoutIdle ==
  /\ layoutLoading = TRUE
  /\ isAdmin = FALSE
  /\ layoutUser = NoUser
  /\ layoutPc = "idle"

MorePagesIdle ==
  /\ EditIdle
  /\ TableIdle
  /\ UsersIdle
  /\ LayoutIdle

Init ==
  /\ StoreInit
  /\ CallersIdle
  /\ AuthIdle
  /\ PageIdle
  /\ MorePagesIdle

\* Teardown that forgets the refresh token.
TeardownKeepsRefreshToken ==
  /\ access_token' = Absent
  /\ refresh_token' = refresh_token
  /\ location' = "/login"

\* lines 84-86: both tokens removed, redirect to the login view
Teardown ==
  /\ access_token' = Absent
  /\ refresh_token' = Absent
  /\ location' = "/login"

\* return <response> / throw <error> out of the invocation
Settle(c, kind, from, status) ==
  /\ result' = [result EXCEPT ![c] = [kind |-> kind, from |-> from, status |-> status]]
  /\ pc' = [pc EXCEPT ![c] = "done"]

\* lines 36-55: read the token, merge the headers, send the primary request
Call(c) ==
  /\ pc[c] = "idle"
  /\ \E optHeaders \in CallerHeaders :
       /\ options' = [options EXCEPT ![c] = optHeaders]
       /\ mergedHeaders' = [mergedHeaders EXCEPT ![c] = MergedHeaders(access_token, optHeaders)]
  /\ sends' = [sends EXCEPT ![c] = @ + 1]
  /\ pc' = [pc EXCEPT ![c] = "primary"]
  /\ UNCHANGED <<access_token, refresh_token, location, result, response, refreshBody,
                 retryHeaders, refreshToken, access, refreshOutcome, refreshes, overlapped>>
  /\ UNCHANGED pageVars

\* PrimaryPassThrough treating every error status as an expired token.
PrimaryPassThroughRefreshesOnError(c) ==
  /\ pc[c] = "primary"
  /\ \E s \in Statuses \ {401} :
       /\ response' = [response EXCEPT ![c] = [from |-> "primary", status |-> s]]
       /\ IF s >= 400 /\ refresh_token # Absent
          THEN /\ refreshToken' = [refreshToken EXCEPT ![c] = refresh_token]
               /\ refreshBody' = [refreshBody EXCEPT ![c] = [refresh |-> refresh_token]]
               /\ refreshes' = [refreshes EXCEPT ![c] = @ + 1]
               /\ pc' = [pc EXCEPT ![c] = "refresh"]
               /\ UNCHANGED result
          ELSE /\ Settle(c, "return", "primary", s)
               /\ UNCHANGED <<refreshToken, refreshBody, refreshes>>
  /\ UNCHANGED <<access_token, refresh_token, location, options, mergedHeaders, retryHeaders,
                 access, refreshOutcome, sends, overlapped>>
  /\ UNCHANGED pageVars

\* lines 55-57, 90: the primary response is not a 401 and is returned
PrimaryPassThrough(c) ==
  /\ pc[c] = "primary"
  /\ \E s \in Statuses \ {401} :
       /\ response' = [response EXCEPT ![c] = [from |-> "primary", status |-> s]]
       /\ Settle(c, "return", "primary", s)
  /\ UNCHANGED <<access_token, refresh_token, location, options, mergedHeaders, refreshBody,
                 retryHeaders, refreshToken, access, refreshOutcome, sends, refreshes,
                 overlapped>>
  /\ UNCHANGED pageVars

\* PrimaryThrows clearing the session in its catch block before rethrowing.
PrimaryThrowsTeardown(c) ==
  /\ pc[c] = "primary"
  /\ Teardown
  /\ Settle(c, "throw", "primary", 0)
  /\ UNCHANGED locals
  /\ UNCHANGED pageVars

\* lines 55, 91-94: fetch of the primary request rejects; the error is rethrown
PrimaryThrows(c) ==
  /\ pc[c] = "primary"
  /\ Settle(c, "throw", "primary", 0)
  /\ UNCHANGED <<access_token, refresh_token, location, locals>>
  /\ UNCHANGED pageVars

\* Primary401Refresh parking a caller whose 401 arrives during another
\* caller's refresh, with nothing that ever wakes it.
Primary401RefreshParks(c) ==
  /\ pc[c] = "primary"
  /\ refresh_token # Absent
  /\ response' = [response EXCEPT ![c] = [from |-> "primary", status |-> 401]]
  /\ refreshToken' = [refreshToken EXCEPT ![c] = refresh_token]
  /\ overlapped' = [overlapped EXCEPT ![c] = RefreshInFlight]
  /\ IF RefreshInFlight = {}
     THEN /\ refreshBody' = [refreshBody EXCEPT ![c] = [refresh |-> refresh_token]]
          /\ refreshes' = [refreshes EXCEPT ![c] = @ + 1]
          /\ pc' = [pc EXCEPT ![c] = "refresh"]
     ELSE /\ pc' = [pc EXCEPT ![c] = "parked"]
          /\ UNCHANGED <<refreshBody, refreshes>>
  /\ UNCHANGED <<access_token, refresh_token, location, result, options, mergedHeaders,
                 retryHeaders, access, refreshOutcome, sends>>
  /\ UNCHANGED pageVars

\* lines 57-65: 401 with a refresh token stored: POST it to the refresh endpoint
Primary401Refresh(c) ==
  /\ pc[c] = "primary"
  /\ refresh_token # Absent
  /\ response' = [response EXCEPT ![c] = [from |-> "primary", status |-> 401]]
  /\ refreshToken' = [refreshToken EXCEPT ![c] = refresh_token]
  /\ refreshBody' = [refreshBody EXCEPT ![c] = [refresh |-> refresh_token]]
  /\ refreshes' = [refreshes EXCEPT ![c] = @ + 1]
  /\ overlapped' = [overlapped EXCEPT ![c] = RefreshInFlight]
  /\ pc' = [pc EXCEPT ![c] = "refresh"]
  /\ UNCHANGED <<access_token, refresh_token, location, result, options, mergedHeaders,
                 retryHeaders, access, refreshOutcome, sends>>
  /\ UNCHANGED pageVars

\* Primary401NoRefreshToken with the teardown left inside the
\* if (refreshToken) block: the 401 is returned and the session stays.
Primary401NoRefreshTokenStays(c) ==
  /\ pc[c] = "primary"
  /\ refresh_token = Absent
  /\ response' = [response EXCEPT ![c] = [from |-> "primary", status |-> 401]]
  /\ refreshToken' = [refreshToken EXCEPT ![c] = Absent]
  /\ overlapped' = [overlapped EXCEPT ![c] = RefreshInFlight]
  /\ Settle(c, "return", "primary", 401)
  /\ UNCHANGED <<access_token, refresh_token, location, options, mergedHeaders, refreshBody,
                 retryHeaders, access, refreshOutcome, sends, refreshes>>
  /\ UNCHANGED pageVars

\* Primary401NoRefreshToken throwing after the teardown instead of returning.
Primary401NoRefreshTokenThrows(c) ==
  /\ pc[c] = "primary"
  /\ refresh_token = Absent
  /\ response' = [response EXCEPT ![c] = [from |-> "primary", status |-> 401]]
  /\ refreshToken' = [refreshToken EXCEPT ![c] = Absent]
  /\ overlapped' = [overlapped EXCEPT ![c] = RefreshInFlight]
  /\ Teardown
  /\ Settle(c, "throw", "primary", 401)
  /\ UNCHANGED <<options, mergedHeaders, refreshBody, retryHeaders, access, refreshOutcome,
                 sends, refreshes>>
  /\ UNCHANGED pageVars

\* lines 57-59, 84-87: 401 with no refresh token stored: teardown, return the 401
Primary401NoRefreshToken(c) ==
  /\ pc[c] = "primary"
  /\ refresh_token = Absent
  /\ response' = [response EXCEPT ![c] = [from |-> "primary", status |-> 401]]
  /\ refreshToken' = [refreshToken EXCEPT ![c] = Absent]
  /\ overlapped' = [overlapped EXCEPT ![c] = RefreshInFlight]
  /\ Teardown
  /\ Settle(c, "return", "primary", 401)
  /\ UNCHANGED <<options, mergedHeaders, refreshBody, retryHeaders, access, refreshOutcome,
                 sends, refreshes>>
  /\ UNCHANGED pageVars

\* RefreshOk storing a refresh token from the refresh response too, which
\* carries none.
RefreshOkStoresRefresh(c) ==
  /\ pc[c] = "refresh"
  /\ \E a \in NewAccessTokens :
       /\ access' = [access EXCEPT ![c] = a]
       /\ access_token' = a
       /\ retryHeaders' = [retryHeaders EXCEPT ![c] = RetryHeaders(mergedHeaders[c], a)]
  /\ refresh_token' = <<"undefined">>
  /\ refreshOutcome' = [refreshOutcome EXCEPT ![c] = "ok"]
  /\ sends' = [sends EXCEPT ![c] = @ + 1]
  /\ pc' = [pc EXCEPT ![c] = "retry"]
  /\ UNCHANGED <<location, result, options, mergedHeaders, response, refreshBody,
                 refreshToken, refreshes, overlapped>>
  /\ UNCHANGED pageVars

\* lines 67-77: the refresh answered ok with {access}: store it, re-send the request
RefreshOk(c) ==
  /\ pc[c] = "refresh"
  /\ \E a \in NewAccessTokens :
       /\ access' = [access EXCEPT ![c] = a]
       /\ access_token' = a
       /\ retryHeaders' = [retryHeaders EXCEPT ![c] = RetryHeaders(mergedHeaders[c], a)]
  /\ refreshOutcome' = [refreshOutcome EXCEPT ![c] = "ok"]
  /\ sends' = [sends EXCEPT ![c] = @ + 1]
  /\ pc' = [pc EXCEPT ![c] = "retry"]
  /\ UNCHANGED <<refresh_token, location, result, options, mergedHeaders, response, refreshBody,
                 refreshToken, refreshes, overlapped>>
  /\ UNCHANGED pageVars

\* lines 67, 84-87: the refresh answered with a non-ok status: teardown, and
\* the primary request's 401 response is returned
RefreshRejected(c) ==
  /\ pc[c] = "refresh"
  /\ refreshOutcome' = [refreshOutcome EXCEPT ![c] = "rejected"]
  /\ Teardown
  /\ Settle(c, "return", response[c].from, response[c].status)
  /\ UNCHANGED <<options, mergedHeaders, response, refreshBody, retryHeaders, refreshToken,
                 access, sends, refreshes, overlapped>>
  /\ UNCHANGED pageVars

\* RefreshThrows without the inner try/catch: the error reaches the outer
\* catch and is rethrown to the caller.
RefreshThrowsPropagates(c) ==
  /\ pc[c] = "refresh"
  /\ refreshOutcome' = [refreshOutcome EXCEPT ![c] = "threw"]
  /\ Settle(c, "throw", "refresh", 0)
  /\ UNCHANGED <<access_token, refresh_token, location, options, mergedHeaders, response,
                 refreshBody, retryHeaders, refreshToken, access, sends, refreshes,
                 overlapped>>
  /\ UNCHANGED pageVars

\* lines 61, 79-87: the refresh fetch rejects; the inner catch logs the error
\* and control falls through to the teardown
RefreshThrows(c) ==
  /\ pc[c] = "refresh"
  /\ refreshOutcome' = [refreshOutcome EXCEPT ![c] = "threw"]
  /\ Teardown
  /\ Settle(c, "return", response[c].from, response[c].status)
  /\ UNCHANGED <<options, mergedHeaders, response, refreshBody, retryHeaders, refreshToken,
                 access, sends, refreshes, overlapped>>
  /\ UNCHANGED pageVars

\* RetryResponds ending the session when the retry is answered 401 again.
RetryRespondsTeardownOn401(c) ==
  /\ pc[c] = "retry"
  /\ \E s \in Statuses :
       /\ Settle(c, "return", "retry", s)
       /\ IF s = 401 THEN Teardown
          ELSE UNCHANGED <<access_token, refresh_token, location>>
  /\ UNCHANGED locals
  /\ UNCHANGED pageVars

\* RetryResponds feeding the retry's response back into the 401 handling.
RetryRespondsLoops(c) ==
  /\ pc[c] = "retry"
  /\ \E s \in Statuses :
       IF s = 401 /\ refresh_token # Absent /\ refreshes[c] < 2
       THEN /\ refreshes' = [refreshes EXCEPT ![c] = @ + 1]
            /\ pc' = [pc EXCEPT ![c] = "refresh"]
            /\ UNCHANGED result
       ELSE /\ Settle(c, "return", "retry", s)
            /\ UNCHANGED refreshes
  /\ UNCHANGED <<access_token, refresh_token, location, options, mergedHeaders, response,
                 refreshBody, retryHeaders, refreshToken, access, refreshOutcome,
                 sends, overlapped>>
  /\ UNCHANGED pageVars

\* lines 71-77: the promise of the re-sent request is what the invocation
\* returns: it resolves with the retry's response, whatever its status
RetryResponds(c) ==
  /\ pc[c] = "retry"
  /\ \E s \in Statuses : Settle(c, "return", "retry", s)
  /\ UNCHANGED <<access_token, refresh_token, location, locals>>
  /\ UNCHANGED pageVars

\* lines 71-77: the re-sent request's fetch rejects, and so does the invocation
RetryThrows(c) ==
  /\ pc[c] = "retry"
  /\ Settle(c, "throw", "retry", 0)
  /\ UNCHANGED <<access_token, refresh_token, location, locals>>
  /\ UNCHANGED pageVars

Next ==
  \E c \in Callers :
    \/ Call(c)
    \/ PrimaryPassThrough(c)
    \/ PrimaryThrows(c)
    \/ Primary401Refresh(c)
    \/ Primary401NoRefreshToken(c)
    \/ RefreshOk(c)
    \/ RefreshRejected(c)
    \/ RefreshThrows(c)
    \/ RetryResponds(c)
    \/ RetryThrows(c)

Spec == Init /\ [][Next]_vars

\* The network answering caller c's outstanding request: any step of the
\* invocation after its first send.
NetworkAnswers(c) ==
  \/ PrimaryPassThrough(c)
  \/ PrimaryThrows(c)
  \/ Primary401Refresh(c)
  \/ Primary401NoRefreshToken(c)
  \/ RefreshOk(c)
  \/ RefreshRejected(c)
  \/ RefreshThrows(c)
  \/ RetryResponds(c)
  \/ RetryThrows(c)

\* makeAPICall(url): a call that passes no headers of its own.  The headers
\* take no part in the control flow of the invocation.
CallPlain(c) == Call(c) /\ options'[c] = NoHeaders

LiveNext == \E c \in Callers : CallPlain(c) \/ NetworkAnswers(c)

\* Calls without caller headers, every network call eventually responding
\* or failing.
LiveSpec == Init /\ [][LiveNext]_vars /\ \A c \in Callers : WF_vars(NetworkAnswers(c))

\* ------------------------------------------------ AuthProvider (part_001)

\* lines 51-62: checkAuth at mount: without a stored token it only ends the
\* loading state, with one it asks the profile endpoint
CheckAuthStart ==
  /\ checkPc = "idle"
  /\ IF access_token = Absent
     THEN /\ loading' = FALSE
          /\ checkPc' = "done"
     ELSE /\ checkPc' = "fetch"
          /\ UNCHANGED loading
  /\ checkToken' = access_token
  /\ UNCHANGED <<access_token, refresh_token, user, route, loginPc, loginOutcome,
                 loginResult, logoutPc, logoutOutcome, callVars, submitVars, morePageVars>>

\* lines 64-67, 77-79: the profile response is ok: the user is set
CheckAuthOk ==
  /\ checkPc = "fetch"
  /\ user' = LoggedUser
  /\ loading' = FALSE
  /\ checkPc' = "done"
  /\ UNCHANGED <<checkToken, access_token, refresh_token, route, loginPc, loginOutcome,
                 loginResult, logoutPc, logoutOutcome, callVars, submitVars, morePageVars>>

\* lines 68-79: the profile response is not ok, or the request or the reading
\* of its body throws: both tokens are removed
CheckAuthFails ==
  /\ checkPc = "fetch"
  /\ access_token' = Absent
  /\ refresh_token' = Absent
  /\ loading' = FALSE
  /\ checkPc' = "done"
  /\ UNCHANGED <<checkToken, user, route, loginPc, loginOutcome, loginResult, logoutPc,
                 logoutOutcome, callVars, submitVars, morePageVars>>

\* lines 85-95: login(email, password) posts the credentials
LoginCall ==
  /\ loginPc \in {"idle", "done"}
  /\ loginPc' = "fetch"
  /\ loginOutcome' = "none"
  /\ loginResult' = NoLoginResult
  /\ UNCHANGED <<checkToken, access_token, refresh_token, user, loading, route, checkPc,
                 logoutPc, logoutOutcome, callVars, submitVars, morePageVars>>

\* LoginRejected without the response.ok test: the fields of the error body
\* are stored as tokens.
LoginRejectedStores ==
  /\ loginPc = "fetch"
  /\ loginOutcome' = "rejected"
  /\ access_token' = <<"undefined">>
  /\ refresh_token' = <<"undefined">>
  /\ user' = <<"undefined">>
  /\ loginResult' = [kind |-> "return", success |-> TRUE, error |-> Absent]
  /\ loginPc' = "done"
  /\ UNCHANGED <<checkToken, loading, route, checkPc, logoutPc, logoutOutcome, callVars, submitVars, morePageVars>>

\* lines 97-109: the login response is ok: both tokens are stored, the user set
LoginOk ==
  /\ loginPc = "fetch"
  /\ loginOutcome' = "ok"
  /\ access_token' = InitialAccess
  /\ refresh_token' = InitialRefresh
  /\ user' = LoggedUser
  /\ loginResult' = [kind |-> "return", success |-> TRUE, error |-> Absent]
  /\ loginPc' = "done"
  /\ UNCHANGED <<checkToken, loading, route, checkPc, logoutPc, logoutOutcome, callVars, submitVars, morePageVars>>

\* lines 97-99, 110-113: the login response is not ok:
\* {success: false, error: data.error || 'Login failed'}
LoginRejected ==
  /\ loginPc = "fetch"
  /\ loginOutcome' = "rejected"
  /\ \E dataError \in {Absent, <<"Invalid credentials">>} :
       loginResult' = [kind |-> "return", success |-> FALSE,
                       error |-> IF dataError # Absent THEN dataError
                                 ELSE <<"Login failed">>]
  /\ loginPc' = "done"
  /\ UNCHANGED <<checkToken, access_token, refresh_token, user, loading, route, checkPc,
                 logoutPc, logoutOutcome, callVars, submitVars, morePageVars>>

\* lines 89-97, 114-117: the request or the reading of its body throws; the
\* catch returns {success: false, error: 'Network error. Please try again.'}
LoginThrows ==
  /\ loginPc = "fetch"
  /\ loginOutcome' = "threw"
  /\ loginResult' = [kind |-> "return", success |-> FALSE,
                     error |-> <<"Network error. Please try again.">>]
  /\ loginPc' = "done"
  /\ UNCHANGED <<checkToken, access_token, refresh_token, user, loading, route, checkPc,
                 logoutPc, logoutOutcome, callVars, submitVars, morePageVars>>

\* lines 120-127: logout() posts to the logout endpoint
LogoutCall ==
  /\ logoutPc \in {"idle", "done"}
  /\ logoutPc' = "fetch"
  /\ logoutOutcome' = "none"
  /\ UNCHANGED <<checkToken, access_token, refresh_token, user, loading, route, checkPc,
                 loginPc, loginOutcome, loginResult, callVars, submitVars, morePageVars>>

\* lines 133-137: the finally block of logout
LogoutCleanup ==
  /\ access_token' = Absent
  /\ refresh_token' = Absent
  /\ user' = NoUser
  /\ route' = "/login"

\* lines 125-138: the logout endpoint answers, with an ok or an error status
\* (the response is not looked at)
LogoutResponds ==
  /\ logoutPc = "fetch"
  /\ \E s \in {"ok", "error"} : logoutOutcome' = s
  /\ LogoutCleanup
  /\ logoutPc' = "done"
  /\ UNCHANGED <<checkToken, loading, checkPc, loginPc, loginOutcome, loginResult, callVars,
                 submitVars, morePageVars>>

\* LogoutThrows with the cleanup at the end of the try block instead of in a
\* finally: a failed request leaves the session in place.
LogoutThrowsKeepsSession ==
  /\ logoutPc = "fetch"
  /\ logoutOutcome' = "threw"
  /\ logoutPc' = "done"
  /\ UNCHANGED <<checkToken, access_token, refresh_token, user, route, loading, checkPc, loginPc,
                 loginOutcome, loginResult, callVars, submitVars, morePageVars>>

\* lines 125-138: the logout request throws; the catch logs, finally cleans up
LogoutThrows ==
  /\ logoutPc = "fetch"
  /\ logoutOutcome' = "threw"
  /\ LogoutCleanup
  /\ logoutPc' = "done"
  /\ UNCHANGED <<checkToken, loading, checkPc, loginPc, loginOutcome, loginResult, callVars,
                 submitVars, morePageVars>>

AuthNext ==
  \/ CheckAuthStart
  \/ CheckAuthOk
  \/ CheckAuthFails
  \/ LoginCall
  \/ LoginOk
  \/ LoginRejected
  \/ LoginThrows
  \/ LogoutCall
  \/ LogoutResponds
  \/ LogoutThrows

\* The AuthProvider alone: checkAuth at mount, logins and logouts.
AuthSpec == Init /\ [][AuthNext]_vars

\* ----------------- app start: checkAuth beside loadData (part_001, api.ts)

\* The Authorization header of caller c's primary request carries the token
\* that was stored when the app started.
SentInitialToken(c) == mergedHeaders[c]["Authorization"] = Bearer(InitialAccess)

\* api.ts lines 398-412, 36-55: loadData finds a stored token and sends its
\* request through makeAPICall, with no headers of its own
LoadDataCall(c) ==
  /\ access_token # Absent
  /\ CallPlain(c)

\* api.ts lines 401-405: loadData finds no stored token: redirect, nothing sent
LoadDataNoToken(c) ==
  /\ pc[c] = "idle"
  /\ access_token = Absent
  /\ location' = "/login"
  /\ pc' = [pc EXCEPT ![c] = "done"]
  /\ UNCHANGED <<access_token, refresh_token, result, locals>>
  /\ UNCHANGED pageVars

\* the backend answers 401 to a request carrying the expired token: refresh
ExpiredPrimaryRefresh(c) ==
  /\ SentInitialToken(c)
  /\ Primary401Refresh(c)

\* the same answer when the refresh token has been removed meanwhile
ExpiredPrimaryNoRefreshToken(c) ==
  /\ SentInitialToken(c)
  /\ Primary401NoRefreshToken(c)

\* the backend answers 200 to a request carrying a refreshed token
FreshPrimaryOk(c) ==
  /\ ~SentInitialToken(c)
  /\ PrimaryPassThrough(c)
  /\ response'[c].status = 200

\* the re-sent request carries the refreshed token: 200
RetryOk(c) ==
  /\ RetryResponds(c)
  /\ result'[c].status = 200

\* part_001 lines 62-72: the profile request carried the expired token, the
\* response is not ok
CheckAuthExpired ==
  /\ checkToken = InitialAccess
  /\ CheckAuthFails

\* part_001 lines 62-67: the profile request carried a refreshed token
CheckAuthFresh ==
  /\ checkToken # InitialAccess
  /\ CheckAuthOk

\* The app starts logged in.
StartupInit ==
  /\ Init
  /\ access_token = InitialAccess

StartupNext ==
  \/ CheckAuthStart
  \/ CheckAuthExpired
  \/ CheckAuthFresh
  \/ \E c \in Callers :
       \/ LoadDataCall(c)
       \/ LoadDataNoToken(c)
       \/ ExpiredPrimaryRefresh(c)
       \/ ExpiredPrimaryNoRefreshToken(c)
       \/ FreshPrimaryOk(c)
       \/ RefreshOk(c)
       \/ RetryOk(c)

\* App start with an expired access token and a valid refresh token: the
\* AuthProvider's checkAuth beside the page's loadData requests, the backend
\* rejecting the expired token and accepting every refresh.
StartupSpec == StartupInit /\ [][StartupNext]_vars

\* ------------------------------------------- MainPage.submitWeek (api.ts)

\* hours || '0'
HoursOrZero(hours) == IF hours = "" THEN "0" ELSE hours

\* parseFloat on the strings a cell holds
ParseFloat(str) == CASE str = "0" -> 0 [] str = "20" -> 20 [] str = "25" -> 25

RECURSIVE SumCells(_, _)
SumCells(td, ks) ==
  IF ks = {} THEN 0
  ELSE LET k == CHOOSE x \in ks : TRUE
       IN ParseFloat(HoursOrZero(td[k])) + SumCells(td, ks \ {k})

\* lines 388-395
GetTotalHours(td) == SumCells(td, DOMAIN td)

\* timesheets.filter(ts => ts.status === 'draft')
DraftTimesheets(ts) == {e \in DOMAIN ts : ts[e] = "draft"}

\* a submit-week request: body {week_start_date, force_submit}
SubmitRequest(week, force) == [week |-> week, force |-> force]

\* The page with a week loaded: any entries, any hours in the table.
SubmitInit ==
  /\ access_token = InitialAccess
  /\ refresh_token = InitialRefresh
  /\ CallersIdle
  /\ AuthIdle
  /\ timesheets \in [Entries -> EntryStatuses]
  /\ tableData \in [Cells -> CellValues]
  /\ dateFrom \in Weeks
  /\ SubmitIdle
  /\ MorePagesIdle

\* lines 733-737: navigateWeek moves the page to the week before or after
NavigateWeek ==
  /\ \E direction \in {-1, 1} :
       /\ dateFrom + direction \in Weeks
       /\ dateFrom' = dateFrom + direction
  /\ UNCHANGED <<access_token, refresh_token, callVars, authVars, morePageVars, timesheets,
                 tableData, saving, submitPc, submitWeekOf, firstAnswer, confirmed,
                 submitRequests, notification>>

\* lines 669-677: no draft entry: an error notification, nothing sent
SubmitNoDrafts ==
  /\ submitPc = "idle"
  /\ DraftTimesheets(timesheets) = {}
  /\ notification' = "no drafts"
  /\ confirmed' = <<>>
  /\ submitRequests' = <<>>
  /\ firstAnswer' = "none"
  /\ UNCHANGED <<access_token, refresh_token, callVars, authVars, morePageVars, timesheets,
                 tableData, dateFrom, saving, submitPc, submitWeekOf>>

\* lines 669-687: fewer hours than the minimum: an error notification
SubmitTooFewHours ==
  /\ submitPc = "idle"
  /\ DraftTimesheets(timesheets) # {}
  /\ GetTotalHours(tableData) < MinimumHours
  /\ notification' = "too few hours"
  /\ confirmed' = <<>>
  /\ submitRequests' = <<>>
  /\ firstAnswer' = "none"
  /\ UNCHANGED <<access_token, refresh_token, callVars, authVars, morePageVars, timesheets,
                 tableData, dateFrom, saving, submitPc, submitWeekOf>>

\* lines 669-691: the user declines the submit dialog
SubmitDeclined ==
  /\ submitPc = "idle"
  /\ DraftTimesheets(timesheets) # {}
  /\ ~(GetTotalHours(tableData) < MinimumHours)
  /\ confirmed' = <<FALSE>>
  /\ submitRequests' = <<>>
  /\ firstAnswer' = "none"
  /\ UNCHANGED <<access_token, refresh_token, callVars, authVars, morePageVars, timesheets,
                 tableData, dateFrom, saving, submitPc, submitWeekOf, notification>>

\* SubmitSendFirst without the test of the total hours.
SubmitSendFirstAnyHours ==
  /\ submitPc = "idle"
  /\ DraftTimesheets(timesheets) # {}
  /\ confirmed' = <<TRUE>>
  /\ saving' = TRUE
  /\ submitWeekOf' = dateFrom
  /\ submitRequests' = <<SubmitRequest(dateFrom, FALSE)>>
  /\ firstAnswer' = "none"
  /\ submitPc' = "first"
  /\ UNCHANGED <<access_token, refresh_token, callVars, authVars, morePageVars, timesheets,
                 tableData, dateFrom, notification>>

\* lines 669-696: the user confirms: saving is set and the week of this
\* render is submitted with force_submit false
SubmitSendFirst ==
  /\ submitPc = "idle"
  /\ DraftTimesheets(timesheets) # {}
  /\ ~(GetTotalHours(tableData) < MinimumHours)
  /\ confirmed' = <<TRUE>>
  /\ saving' = TRUE
  /\ submitWeekOf' = dateFrom
  /\ submitRequests' = <<SubmitRequest(dateFrom, FALSE)>>
  /\ firstAnswer' = "none"
  /\ submitPc' = "first"
  /\ UNCHANGED <<access_token, refresh_token, callVars, authVars, morePageVars, timesheets,
                 tableData, dateFrom, notification>>

\* lines 696-701: the first response is ok: notification, then the reload
SubmitFirstOk ==
  /\ submitPc = "first"
  /\ firstAnswer' = "ok"
  /\ notification' = "submitted"
  /\ submitPc' = "refresh"
  /\ UNCHANGED <<access_token, refresh_token, callVars, authVars, morePageVars, timesheets,
                 tableData, dateFrom, saving, submitWeekOf, confirmed, submitRequests>>

\* lines 702-712: not ok with can_force_submit, and the user confirms the
\* warning dialog: the same week is submitted with force_submit true
SubmitForceConfirmed ==
  /\ submitPc = "first"
  /\ firstAnswer' = "can_force"
  /\ confirmed' = Append(confirmed, TRUE)
  /\ submitRequests' = Append(submitRequests, SubmitRequest(submitWeekOf, TRUE))
  /\ submitPc' = "force"
  /\ UNCHANGED <<access_token, refresh_token, callVars, authVars, morePageVars, timesheets,
                 tableData, dateFrom, saving, submitWeekOf, notification>>

\* SubmitForceDeclined with the forced request outside the if (confirm(...)).
SubmitForceDeclinedSendsAnyway ==
  /\ submitPc = "first"
  /\ firstAnswer' = "can_force"
  /\ confirmed' = Append(confirmed, FALSE)
  /\ submitRequests' = Append(submitRequests, SubmitRequest(submitWeekOf, TRUE))
  /\ submitPc' = "force"
  /\ UNCHANGED <<access_token, refresh_token, callVars, authVars, morePageVars, timesheets,
                 tableData, dateFrom, saving, submitWeekOf, notification>>

\* lines 702-711, 727-729: not ok with can_force_submit, and the user
\* declines the warning dialog: nothing more is sent
SubmitForceDeclined ==
  /\ submitPc = "first"
  /\ firstAnswer' = "can_force"
  /\ confirmed' = Append(confirmed, FALSE)
  /\ saving' = FALSE
  /\ submitPc' = "idle"
  /\ UNCHANGED <<access_token, refresh_token, callVars, authVars, morePageVars, timesheets,
                 tableData, dateFrom, submitWeekOf, submitRequests, notification>>

\* lines 723-729: not ok without can_force_submit: an error notification; and
\* lines 725-729: the request or the reading of its body throws: the same
SubmitFirstFails ==
  /\ submitPc = "first"
  /\ \E a \in {"error", "threw"} : firstAnswer' = a
  /\ notification' = "failed"
  /\ saving' = FALSE
  /\ submitPc' = "idle"
  /\ UNCHANGED <<access_token, refresh_token, callVars, authVars, morePageVars, timesheets,
                 tableData, dateFrom, submitWeekOf, confirmed, submitRequests>>

\* lines 712-717: the forced response is ok: notification, then the reload
SubmitForceOk ==
  /\ submitPc = "force"
  /\ notification' = "submitted with warnings"
  /\ submitPc' = "refresh"
  /\ UNCHANGED <<access_token, refresh_token, callVars, authVars, morePageVars, timesheets,
                 tableData, dateFrom, saving, submitWeekOf, firstAnswer, confirmed,
                 submitRequests>>

\* lines 718-729: the forced response is not ok, or the request throws
SubmitForceFails ==
  /\ submitPc = "force"
  /\ notification' = "failed"
  /\ saving' = FALSE
  /\ submitPc' = "idle"
  /\ UNCHANGED <<access_token, refresh_token, callVars, authVars, morePageVars, timesheets,
                 tableData, dateFrom, submitWeekOf, firstAnswer, confirmed,
                 submitRequests>>

\* lines 619-626, 727-729: refreshTimesheets settles: the list becomes what
\* the server holds (the drafts submitted), or empty when loadTimesheets got
\* a non-ok response, or stays when the load threw; then saving is reset
SubmitRefreshed ==
  /\ submitPc = "refresh"
  /\ \E loaded \in {"data", "empty", "threw"} :
       timesheets' = CASE loaded = "data" ->
                            [e \in Entries |-> IF timesheets[e] = "draft" THEN "submitted"
                                               ELSE timesheets[e]]
                       [] loaded = "empty" -> [e \in Entries |-> "none"]
                       [] loaded = "threw" -> timesheets
  /\ saving' = FALSE
  /\ submitPc' = "idle"
  /\ UNCHANGED <<access_token, refresh_token, callVars, authVars, morePageVars, tableData, dateFrom,
                 submitWeekOf, firstAnswer, confirmed, submitRequests, notification>>

SubmitNext ==
  \/ NavigateWeek
  \/ SubmitNoDrafts
  \/ SubmitTooFewHours
  \/ SubmitDeclined
  \/ SubmitSendFirst
  \/ SubmitFirstOk
  \/ SubmitForceConfirmed
  \/ SubmitForceDeclined
  \/ SubmitFirstFails
  \/ SubmitForceOk
  \/ SubmitForceFails
  \/ SubmitRefreshed

\* The timesheet page's week submission alone.
SubmitSpec == SubmitInit /\ [][SubmitNext]_vars

\* ------------------------------------- MainPage.handleCellChange (api.ts)

\* timesheets.find(ts => ...) for the entry of cell k, by its status
\* ("none": undefined)
ExistingTimesheet(ts, k) == IF k \in DOMAIN ts THEN ts[k] ELSE "none"

\* parseFloat(value) > 0; parseFloat('') is NaN, and NaN > 0 is false
HoursPositive(value) == value # "" /\ ParseFloat(value) > 0

\* what a cell change leaves alone
editFrame == <<access_token, refresh_token, callVars, authVars, dateFrom, saving, submitPc,
               submitWeekOf, firstAnswer, confirmed, submitRequests, pageUser, projects,
               tableVars, usersVars, layoutVars>>

\* SaveTimesheet without the test of the entry's status.
SaveTimesheetAnyStatus(k) ==
  IF pageUser = NoUser
  THEN /\ notification' = "user not found"
       /\ UNCHANGED cellPc
  ELSE IF k \notin projects
  THEN /\ notification' = "project not found"
       /\ UNCHANGED cellPc
  ELSE /\ cellPc' = [cellPc EXCEPT ![k] = IF ExistingTimesheet(timesheets, k) = "none"
                                           THEN "post" ELSE "put"]
       /\ UNCHANGED notification

\* lines 545-575, 176-202: saveTimesheet up to its request: POST for a new
\* entry, PUT for an existing one, nothing for a submitted one
SaveTimesheet(k) ==
  IF pageUser = NoUser
  THEN /\ notification' = "user not found"
       /\ UNCHANGED cellPc
  ELSE IF k \notin projects
  THEN /\ notification' = "project not found"
       /\ UNCHANGED cellPc
  ELSE IF ExistingTimesheet(timesheets, k) = "submitted"
  THEN /\ notification' = "cannot edit submitted"
       /\ UNCHANGED cellPc
  ELSE /\ cellPc' = [cellPc EXCEPT ![k] = IF ExistingTimesheet(timesheets, k) = "none"
                                           THEN "post" ELSE "put"]
       /\ UNCHANGED notification

\* lines 594-607, 210-215: deleteTimesheet up to its request: DELETE for an
\* existing entry that is not submitted
DeleteTimesheet(k) ==
  /\ IF ExistingTimesheet(timesheets, k) \notin {"none", "submitted"}
     THEN cellPc' = [cellPc EXCEPT ![k] = "delete"]
     ELSE UNCHANGED cellPc
  /\ UNCHANGED notification

\* lines 519-543: handleCellChange(projectName, activityType, date, value)
\* writes the cell, then saves or deletes by the value
HandleCellChange(k) ==
  /\ cellPc[k] = "idle"
  /\ \E value \in CellValues :
       /\ tableData' = [tableData EXCEPT ![k] = value]
       /\ IF HoursPositive(value) THEN SaveTimesheet(k) ELSE DeleteTimesheet(k)
  /\ UNCHANGED <<timesheets, editFrame>>

\* lines 577-579: the save response is ok: notification, then the reload
SaveOk(k) ==
  /\ cellPc[k] \in {"post", "put"}
  /\ notification' = "saved"
  /\ cellPc' = [cellPc EXCEPT ![k] = "saved"]
  /\ UNCHANGED <<timesheets, tableData, editFrame>>

\* lines 580-586: the save response is not ok, or the request throws
SaveFails(k) ==
  /\ cellPc[k] \in {"post", "put"}
  /\ notification' = "save failed"
  /\ cellPc' = [cellPc EXCEPT ![k] = "idle"]
  /\ UNCHANGED <<timesheets, tableData, editFrame>>

\* lines 609-612: the delete response is ok: notification, then the reload
DeleteOk(k) ==
  /\ cellPc[k] = "delete"
  /\ notification' = "cleared"
  /\ cellPc' = [cellPc EXCEPT ![k] = "cleared"]
  /\ UNCHANGED <<timesheets, tableData, editFrame>>

\* lines 609-616: the delete response is not ok: nothing is shown; or the
\* request throws: an error notification
DeleteFails(k) ==
  /\ cellPc[k] = "delete"
  /\ \/ UNCHANGED notification
     \/ notification' = "delete failed"
  /\ cellPc' = [cellPc EXCEPT ![k] = "idle"]
  /\ UNCHANGED <<timesheets, tableData, editFrame>>

\* lines 619-626, 138-148: refreshTimesheets settles: the list becomes what
\* the server holds (the saved entry a draft, the cleared entry gone), or
\* empty when loadTimesheets got a non-ok response, or stays when it threw
RefreshTimesheets(k) ==
  /\ cellPc[k] \in {"saved", "cleared"}
  /\ \E loaded \in {"data", "empty", "threw"} :
       timesheets' = CASE loaded = "data" ->
                            [e \in Entries |->
                               IF e # k THEN timesheets[e]
                               ELSE IF cellPc[k] = "cleared" THEN "none"
                               ELSE IF timesheets[e] = "none" THEN "draft"
                               ELSE timesheets[e]]
                       [] loaded = "empty" -> [e \in Entries |-> "none"]
                       [] loaded = "threw" -> timesheets
  /\ cellPc' = [cellPc EXCEPT ![k] = "idle"]
  /\ UNCHANGED <<tableData, notification, editFrame>>

\* The page with a week loaded: any entries; a user or none; every project
\* in the projects list, or all but the first cell's.
EditInit ==
  /\ access_token = InitialAccess
  /\ refresh_token = InitialRefresh
  /\ CallersIdle
  /\ AuthIdle
  /\ timesheets \in [Entries -> EntryStatuses]
  /\ tableData = [k \in Cells |-> ""]
  /\ dateFrom = 1
  /\ SubmitIdle
  /\ pageUser \in {NoUser, LoggedUser}
  /\ projects \in {Cells, Cells \ {1}}
  /\ cellPc = [k \in Cells |-> "idle"]
  /\ TableIdle
  /\ UsersIdle
  /\ LayoutIdle

EditNext ==
  \E k \in Cells :
    \/ HandleCellChange(k)
    \/ SaveOk(k)
    \/ SaveFails(k)
    \/ DeleteOk(k)
    \/ DeleteFails(k)
    \/ RefreshTimesheets(k)

\* The timesheet page's cell edits alone.
EditSpec == EditInit /\ [][EditNext]_vars

\* -------------------------- TimesheetTable (components/TimesheetTable.tsx)

\* The names of cell k, each a string given by its hyphen-separated pieces:
\* a project name and an activity type without hyphens, and a date as
\* formatDate writes it (api.ts lines 231-236), `${year}-${month}-${day}`.
ProjectName(k) == << <<"Project", k>> >>
ActivityType(k) == << <<"Development">> >>
DateOf(k) == << <<"2025">>, <<"01">>, <<"06">> >>

\* `${projectName}-${activityType}-${date}`
CellKey(projectName, activityType, date) == projectName \o activityType \o date

\* `${projectName}-${activityType}`
TableKey(projectName, activityType) == projectName \o activityType

CellKeyOf(k) == CellKey(ProjectName(k), ActivityType(k), DateOf(k))

\* cellKey.split('-'): the array of the pieces, each a string of its own
SplitOnHyphen(cellKey) == [i \in 1..Len(cellKey) |-> <<cellKey[i]>>]

\* element i of an array (Absent: undefined)
ElementAt(array, i) == IF i \in DOMAIN array THEN array[i] ELSE Absent

\* lines 54-57: tableData[tableKey]?.[date] || ''
GetSavedValue(td, projectName, activityType, date) ==
  LET cells == {k \in DOMAIN td : /\ TableKey(ProjectName(k), ActivityType(k))
                                       = TableKey(projectName, activityType)
                                    /\ DateOf(k) = date}
  IN IF cells = {} THEN "" ELSE td[CHOOSE k \in cells : TRUE]

\* editingValues without the entry of cellKey
DeleteKey(ev, cellKey) == [key \in DOMAIN ev \ {cellKey} |-> ev[key]]

\* { ...prev, [cellKey]: value }
SetKey(ev, cellKey, value) ==
  [key \in DOMAIN ev \cup {cellKey} |-> IF key = cellKey THEN value ELSE ev[key]]

\* lines 73-80
IsModified(ev, td, projectName, activityType, date) ==
  LET cellKey == CellKey(projectName, activityType, date)
  IN IF cellKey \notin DOMAIN ev THEN FALSE
     ELSE ev[cellKey] # GetSavedValue(td, projectName, activityType, date)

\* lines 227-232
HasUnsavedChanges(ev, td) ==
  \E cellKey \in DOMAIN ev :
    LET parts == SplitOnHyphen(cellKey)
    IN IsModified(ev, td, ElementAt(parts, 1), ElementAt(parts, 2), ElementAt(parts, 3))

\* line 475: disabled={saving || currentlySaving.size > 0 || hasUnsavedChanges()}
SubmitDisabled ==
  saving \/ Cardinality(currentlySaving) > 0 \/ HasUnsavedChanges(editingValues, tableData)

\* lines 60-70
GetCurrentValue(k) ==
  IF CellKeyOf(k) \in DOMAIN editingValues THEN editingValues[CellKeyOf(k)]
  ELSE GetSavedValue(tableData, ProjectName(k), ActivityType(k), DateOf(k))

\* lines 83-115
GetCellStatus(k) ==
  IF CellKeyOf(k) \in currentlySaving THEN "saving"
  ELSE IF IsModified(editingValues, tableData, ProjectName(k), ActivityType(k), DateOf(k))
  THEN "modified"
  ELSE IF GetCurrentValue(k) = "" \/ ParseFloat(GetCurrentValue(k)) = 0 THEN "blank"
  ELSE IF ExistingTimesheet(timesheets, k) = "submitted" THEN "submitted"
  ELSE IF ExistingTimesheet(timesheets, k) = "draft" THEN "draft"
  ELSE "unsaved"

\* lines 136-139
IsCellEditable(k) == GetCellStatus(k) \notin {"submitted", "saving"}

\* what the table's handlers leave alone
tableFrame == <<access_token, refresh_token, callVars, authVars, timesheets, dateFrom, saving,
                submitPc, submitWeekOf, firstAnswer, confirmed, submitRequests, notification,
                pageUser, projects, usersVars, layoutVars>>

\* lines 152-163, 410, 413: the user enters an enabled input
HandleInputFocus(k) ==
  /\ IsCellEditable(k)
  /\ editingValues' =
       IF CellKeyOf(k) \notin DOMAIN editingValues
       THEN SetKey(editingValues, CellKeyOf(k),
                   GetSavedValue(tableData, ProjectName(k), ActivityType(k), DateOf(k)))
       ELSE editingValues
  /\ UNCHANGED <<tableData, currentlySaving, cellPc, tableFrame>>

\* lines 142-149, 409, 413: the user types in an enabled input
HandleInputChange(k) ==
  /\ IsCellEditable(k)
  /\ \E value \in CellValues :
       editingValues' = SetKey(editingValues, CellKeyOf(k), value)
  /\ UNCHANGED <<tableData, currentlySaving, cellPc, tableFrame>>

\* lines 166-178, 196-203: the user leaves an enabled input: a changed value
\* marks the cell as saving and goes to onCellChange, which writes it to
\* tableData at once (api.ts lines 527-534); an unchanged one is dropped
HandleInputBlur(k) ==
  /\ IsCellEditable(k)
  /\ cellPc[k] = "idle"
  /\ LET cellKey == CellKeyOf(k)
         savedValue == GetSavedValue(tableData, ProjectName(k), ActivityType(k), DateOf(k))
     IN IF cellKey \in DOMAIN editingValues /\ editingValues[cellKey] # savedValue
        THEN /\ currentlySaving' = currentlySaving \cup {cellKey}
             /\ tableData' = [tableData EXCEPT ![k] = editingValues[cellKey]]
             /\ cellPc' = [cellPc EXCEPT ![k] = "called"]
             /\ UNCHANGED editingValues
        ELSE /\ editingValues' = DeleteKey(editingValues, cellKey)
             /\ UNCHANGED <<tableData, currentlySaving, cellPc>>
  /\ UNCHANGED tableFrame

\* lines 178-185, 188-195: onCellChange resolves: the editing value is
\* dropped and the cell leaves currentlySaving
OnCellChangeResolves(k) ==
  /\ cellPc[k] = "called"
  /\ editingValues' = DeleteKey(editingValues, CellKeyOf(k))
  /\ currentlySaving' = currentlySaving \ {CellKeyOf(k)}
  /\ cellPc' = [cellPc EXCEPT ![k] = "idle"]
  /\ UNCHANGED <<tableData, tableFrame>>

\* OnCellChangeThrows with the removal after the try statement, not in a
\* finally block.
OnCellChangeThrowsKeepsSaving(k) ==
  /\ cellPc[k] = "called"
  /\ cellPc' = [cellPc EXCEPT ![k] = "idle"]
  /\ UNCHANGED <<editingValues, currentlySaving, tableData, tableFrame>>

\* lines 186-195: onCellChange throws: the editing value stays and the cell
\* leaves currentlySaving
OnCellChangeThrows(k) ==
  /\ cellPc[k] = "called"
  /\ currentlySaving' = currentlySaving \ {CellKeyOf(k)}
  /\ cellPc' = [cellPc EXCEPT ![k] = "idle"]
  /\ UNCHANGED <<editingValues, tableData, tableFrame>>

\* The table over a week with any entries and empty cells.
TableInit ==
  /\ access_token = InitialAccess
  /\ refresh_token = InitialRefresh
  /\ CallersIdle
  /\ AuthIdle
  /\ timesheets \in [Entries -> EntryStatuses]
  /\ tableData = [k \in Cells |-> ""]
  /\ dateFrom = 1
  /\ SubmitIdle
  /\ MorePagesIdle

\* onCellChange for cell k settles
OnCellChangeSettles(k) == OnCellChangeResolves(k) \/ OnCellChangeThrows(k)

TableNext ==
  \E k \in Cells :
    \/ HandleInputFocus(k)
    \/ HandleInputChange(k)
    \/ HandleInputBlur(k)
    \/ OnCellChangeResolves(k)
    \/ OnCellChangeThrows(k)

\* The table alone, under the user's focus, typing and blur events.
TableSpec == TableInit /\ [][TableNext]_vars

\* The same, every onCellChange call eventually resolving or throwing.
TableLiveSpec == TableSpec /\ \A k \in Cells : WF_vars(OnCellChangeSettles(k))

\* --------------------------------------- AdminUsers (admin/users/page.tsx)

\* id of the account that is logged in
SelfId == 1

\* user.id === currentUser?.id
IsCurrentUser(u) == currentUser # NoUser /\ currentUser[1] = u

\* what AdminUsers leaves alone
usersFrame == <<access_token, refresh_token, callVars, authVars, submitVars, editVars,
                tableVars, layoutVars>>

\* lines 82-84, 93-94: loadCurrentUser asks for the profile at mount
LoadCurrentUserStart ==
  /\ profilePc = "idle"
  /\ profilePc' = "fetch"
  /\ UNCHANGED <<currentUser, users, usersPc, deletePc, deleteRequests, error, usersFrame>>

\* lines 85-88: the profile response is ok
LoadCurrentUserOk ==
  /\ profilePc = "fetch"
  /\ currentUser' = <<SelfId>>
  /\ profilePc' = "done"
  /\ UNCHANGED <<users, usersPc, deletePc, deleteRequests, error, usersFrame>>

\* lines 85, 89-92: the profile response is not ok, or the request throws
LoadCurrentUserFails ==
  /\ profilePc = "fetch"
  /\ profilePc' = "done"
  /\ UNCHANGED <<currentUser, users, usersPc, deletePc, deleteRequests, error, usersFrame>>

\* lines 97-102, 124-126: fetchUsers at mount
FetchUsersStart ==
  /\ usersPc = "idle"
  /\ error' = ""
  /\ usersPc' = "fetch"
  /\ UNCHANGED <<currentUser, users, profilePc, deletePc, deleteRequests, usersFrame>>

\* lines 104-106, 119-121: the list response is ok: the accounts the backend
\* holds
FetchUsersOk ==
  /\ usersPc = "fetch"
  /\ \E list \in SUBSET UserIds : users' = list
  /\ usersPc' = "done"
  /\ UNCHANGED <<currentUser, profilePc, deletePc, deleteRequests, error, usersFrame>>

\* lines 107-121: a 403, another error status, or the request throws
FetchUsersFails ==
  /\ usersPc = "fetch"
  /\ \E message \in {"admin privileges required", "failed to load users"} : error' = message
  /\ usersPc' = "done"
  /\ UNCHANGED <<currentUser, users, profilePc, deletePc, deleteRequests, usersFrame>>

\* lines 235-250, 300-302, 341: handleDelete(user) from a row of the rendered
\* list: refused for the current user, else sent after the confirm dialog
HandleDelete(u) ==
  /\ usersPc = "done"
  /\ u \in users
  /\ deletePc[u] = "idle"
  /\ IF IsCurrentUser(u)
     THEN /\ error' = "cannot delete your own account"
          /\ UNCHANGED <<deletePc, deleteRequests>>
     ELSE \E answer \in BOOLEAN :
            IF answer
            THEN /\ deletePc' = [deletePc EXCEPT ![u] = "sent"]
                 /\ deleteRequests' = deleteRequests \cup {u}
                 /\ UNCHANGED error
            ELSE UNCHANGED <<deletePc, deleteRequests, error>>
  /\ UNCHANGED <<currentUser, users, profilePc, usersPc, usersFrame>>

\* lines 252-254, 97-102: the delete response is ok: the list is fetched again
DeleteUserOk(u) ==
  /\ deletePc[u] = "sent"
  /\ deletePc' = [deletePc EXCEPT ![u] = "idle"]
  /\ error' = ""
  /\ usersPc' = "fetch"
  /\ UNCHANGED <<currentUser, users, profilePc, deleteRequests, usersFrame>>

\* lines 255-264: the delete response is not ok, or the request throws
DeleteUserFails(u) ==
  /\ deletePc[u] = "sent"
  /\ deletePc' = [deletePc EXCEPT ![u] = "idle"]
  /\ error' = "failed to delete user"
  /\ UNCHANGED <<currentUser, users, profilePc, usersPc, deleteRequests, usersFrame>>

\* The admin users page opened by a logged-in user.
UsersInit ==
  /\ Init
  /\ access_token = InitialAccess

UsersNext ==
  \/ LoadCurrentUserStart
  \/ LoadCurrentUserOk
  \/ LoadCurrentUserFails
  \/ FetchUsersStart
  \/ FetchUsersOk
  \/ FetchUsersFails
  \/ \E u \in UserIds :
       \/ HandleDelete(u)
       \/ DeleteUserOk(u)
       \/ DeleteUserFails(u)

\* The admin users page alone.
UsersSpec == UsersInit /\ [][UsersNext]_vars

\* --------------------------------------------- AdminLayout (part_004)

\* designationChoices (admin/users/page.tsx lines 72-79)
Designations ==
  {"employee", "senior_employee", "team_lead", "manager", "senior_manager", "director"}

\* Strings as the sequence of their words; Absent: undefined
UserNames == {Absent, <<"Alice">>, <<"Admin", "Bob">>}
Emails == {Absent, <<"alice", "example", "com">>, <<"admin", "example", "com">>}

\* toLowerCase() on a word
LowerWord(word) ==
  CASE word = "Alice" -> "alice" [] word = "Admin" -> "admin" [] word = "Bob" -> "bob"
    [] OTHER -> word

\* str.toLowerCase()
ToLowerCase(str) == [i \in DOMAIN str |-> LowerWord(str[i])]

\* str.includes(word)
Includes(str, word) == \E i \in DOMAIN str : str[i] = word

\* str?.toLowerCase().includes('admin'), undefined for an undefined str
LowerIncludesAdmin(str) == str # Absent /\ Includes(ToLowerCase(str), "admin")

\* what the user-info endpoint answers with
UserDatas ==
  [designation : Designations, is_admin : BOOLEAN, is_staff : BOOLEAN,
   user_name : UserNames, email : Emails]

\* lines 49-55: the criteria hasAdminAccess names
AdminCriteria(userData) ==
  \/ userData.designation = "manager"
  \/ userData.designation = "director"
  \/ userData.designation = "senior_manager"
  \/ userData.is_admin = TRUE
  \/ userData.is_staff = TRUE
  \/ LowerIncludesAdmin(userData.user_name)
  \/ LowerIncludesAdmin(userData.email)

\* lines 48-56: hasAdminAccess, the criteria or-ed with true
HasAdminAccess(userData) == AdminCriteria(userData) \/ TRUE

\* lines 87-97: the layout renders its children
RendersChildren == ~layoutLoading /\ isAdmin

\* what AdminLayout leaves alone
layoutFrame == <<access_token, refresh_token, callVars, user, loading, checkPc, checkToken,
                 loginPc, loginOutcome, loginResult, logoutPc, logoutOutcome, submitVars,
                 editVars, tableVars, usersVars>>

\* lines 36-44, 74-76: checkAdminAccess at mount: to the login view without a
\* stored token, else the user-info request
CheckAdminAccessStart ==
  /\ layoutPc = "idle"
  /\ IF access_token = Absent
     THEN /\ route' = "/login"
          /\ layoutLoading' = FALSE
          /\ layoutPc' = "done"
     ELSE /\ layoutPc' = "fetch"
          /\ UNCHANGED <<route, layoutLoading>>
  /\ UNCHANGED <<isAdmin, layoutUser, layoutFrame>>

\* lines 46-66, 74-76: the user-info response is ok
CheckAdminAccessOk ==
  /\ layoutPc = "fetch"
  /\ \E userData \in UserDatas :
       IF ~HasAdminAccess(userData)
       THEN /\ route' = "/"
            /\ UNCHANGED <<isAdmin, layoutUser>>
       ELSE /\ layoutUser' = userData
            /\ isAdmin' = TRUE
            /\ UNCHANGED route
  /\ layoutLoading' = FALSE
  /\ layoutPc' = "done"
  /\ UNCHANGED layoutFrame

\* lines 67-76: the response is not ok, or the request throws
CheckAdminAccessFails ==
  /\ layoutPc = "fetch"
  /\ route' = "/login"
  /\ layoutLoading' = FALSE
  /\ layoutPc' = "done"
  /\ UNCHANGED <<isAdmin, layoutUser, layoutFrame>>

LayoutNext ==
  \/ CheckAdminAccessStart
  \/ CheckAdminAccessOk
  \/ CheckAdminAccessFails

\* The admin layout alone, mounted with or without a stored token.
LayoutSpec == Init /\ [][LayoutNext]_vars

TypeOK ==
  /\ access_token \in {Absent, InitialAccess} \cup NewAccessTokens
  /\ refresh_token \in {Absent, InitialRefresh}
  /\ location \in {"/", "/login"}
  /\ pc \in [Callers -> {"idle", "primary", "refresh", "retry", "done"}]
  /\ sends \in [Callers -> 0..2]
  /\ refreshes \in [Callers -> 0..1]

\* ------------------------------------------------------------------ claims

\* The step in which caller c's refresh call ends in failure.
RefreshFails(c) ==
  /\ pc[c] = "refresh"
  /\ refreshOutcome'[c] \in {"rejected", "threw"}

Returned(from, status) == [kind |-> "return", from |-> from, status |-> status]
Thrown(from) == [kind |-> "throw", from |-> from, status |-> 0]

\* C1: single-flight refresh: at no time are two calls to the refresh
\* endpoint in flight; a caller whose 401 arrives during a refresh does not
\* issue a refresh of its own.
SingleFlightRefresh ==
  /\ Cardinality(RefreshInFlight) <= 1
  /\ \A c \in Callers : overlapped[c] # {} => refreshes[c] = 0

\* C2: after a 401 with refresh token R stored and a refresh answered with
\* access token T2, the body of the refresh POST is {refresh: R}, the request
\* is re-sent once with Authorization: Bearer T2, the caller gets the retry's
\* outcome, and T2 is the stored access token after the refresh (and still is
\* when the call is the only one made).
RefreshAndRetrySuccess ==
  /\ [](\A c \in Callers : refreshOutcome[c] = "ok" =>
          /\ refreshToken[c] = InitialRefresh
          /\ refreshBody[c] = [refresh |-> refreshToken[c]]
          /\ access[c] \in NewAccessTokens
          /\ retryHeaders[c]["Authorization"] = Bearer(access[c])
          /\ sends[c] = 2
          /\ pc[c] \in {"retry", "done"}
          /\ pc[c] = "done" => result[c].from = "retry"
          /\ (pc[c] = "done" /\ \A o \in Callers \ {c} : pc[o] = "idle")
                => access_token = access[c])
  /\ [][\A c \in Callers :
          (refreshOutcome[c] # "ok" /\ refreshOutcome'[c] = "ok")
             => (access_token' = access'[c] /\ refresh_token' = refresh_token)]_vars

RefreshAndRetrySuccessWitness ==
  \E c \in Callers :
    /\ refreshOutcome[c] = "ok"
    /\ result[c] = Returned("retry", 200)
    /\ mergedHeaders[c]["Authorization"] = Bearer(InitialAccess)
    /\ access_token = access[c]
    /\ \A o \in Callers \ {c} : pc[o] = "idle"

\* C3: a request whose 401 arrived while another caller's refresh was in
\* flight, that refresh having succeeded, has been re-sent with the
\* refreshed access token by the time its call settles, and its caller gets
\* the outcome of that retry.
ReplayOfConcurrentCallers ==
  \A c \in Callers :
    (/\ pc[c] = "done"
     /\ response[c].status = 401
     /\ \E o \in overlapped[c] : refreshOutcome[o] = "ok")
    => /\ result[c].from = "retry"
       /\ \E t \in NewAccessTokens : retryHeaders[c]["Authorization"] = Bearer(t)

\* C4: one invocation sends its request at most twice and calls the refresh
\* endpoint at most once; when the retried request settles, with a 401 as
\* with anything else, the invocation settles with that outcome and issues
\* nothing more.
NoInfiniteRetry ==
  /\ [](\A c \in Callers :
          /\ sends[c] <= 2
          /\ refreshes[c] <= 1
          /\ result[c].from = "retry" => (sends[c] = 2 /\ refreshes[c] = 1))
  /\ [][\A c \in Callers :
          (pc[c] = "retry" /\ pc'[c] # "retry")
             => /\ pc'[c] = "done"
                /\ result'[c].from = "retry"
                /\ sends' = sends
                /\ refreshes' = refreshes]_vars

NoInfiniteRetryWitness ==
  \E c \in Callers :
    /\ pc[c] = "done"
    /\ refreshOutcome[c] = "ok"
    /\ result[c] = Returned("retry", 401)

\* C5: in the step in which a 401 arrives while no refresh token is stored,
\* both tokens are removed, the page is sent to /login, and neither a refresh
\* call nor a retry is issued: the invocation is over.
TeardownOnMissingRefreshToken ==
  /\ [][\A c \in Callers :
          (pc[c] = "primary" /\ response'[c].status = 401 /\ refresh_token = Absent)
             => /\ access_token' = Absent
                /\ refresh_token' = Absent
                /\ location' = "/login"
                /\ refreshes' = refreshes
                /\ sends' = sends
                /\ pc'[c] = "done"]_vars
  /\ [](\A c \in Callers :
          refreshToken[c] = Absent
             => (refreshes[c] = 0 /\ sends[c] = 1 /\ retryHeaders[c] = Absent))

TeardownOnMissingRefreshTokenWitness ==
  \E c \in Callers :
    /\ pc[c] = "done"
    /\ mergedHeaders[c]["Authorization"] = Bearer(InitialAccess)
    /\ response[c].status = 401
    /\ refreshToken[c] = Absent
    /\ location = "/login"

TeardownOnRefreshFailure ==
  /\ [][\A c \in Callers :
          RefreshFails(c)
             => /\ access_token' = Absent
                /\ refresh_token' = Absent
                /\ location' = "/login"
                /\ sends' = sends
                /\ pc'[c] = "done"]_vars
  /\ [](\A c \in Callers :
          refreshOutcome[c] \in {"rejected", "threw"}
             => (pc[c] = "done" /\ sends[c] = 1 /\ retryHeaders[c] = Absent))

TeardownOnRefreshFailureWitness ==
  \E c, d \in Callers :
    /\ refreshOutcome[c] = "rejected"
    /\ refreshOutcome[d] = "threw"
    /\ refreshBody[c] = [refresh |-> InitialRefresh]
    /\ location = "/login"

PassThroughNon401 ==
  [][\A c \in Callers :
       (pc[c] = "primary" /\ response'[c].from = "primary" /\ response'[c].status # 401)
          => /\ pc'[c] = "done"
             /\ result'[c] = Returned("primary", response'[c].status)
             /\ access_token' = access_token
             /\ refresh_token' = refresh_token
             /\ location' = location
             /\ refreshes' = refreshes
             /\ sends' = sends]_vars

PassThroughNon401Witness ==
  \E c \in Callers :
    /\ result[c] = Returned("primary", 500)
    /\ mergedHeaders[c]["Authorization"] = Bearer(InitialAccess)
    /\ refreshes[c] = 0
    /\ access_token = InitialAccess
    /\ refresh_token = InitialRefresh

\* C10: in the step in which the primary request fails at transport level
\* (its await ends with no response), the invocation throws to its caller,
\* re-sends nothing, calls no refresh, and leaves the stored tokens alone.
TransportFailurePropagates ==
  [][\A c \in Callers :
       (pc[c] = "primary" /\ pc'[c] # "primary" /\ response'[c] = NoResponse)
          => /\ pc'[c] = "done"
             /\ result'[c] = Thrown("primary")
             /\ access_token' = access_token
             /\ refresh_token' = refresh_token
             /\ location' = location
             /\ refreshes' = refreshes
             /\ sends' = sends]_vars

TransportFailurePropagatesWitness ==
  \E c \in Callers :
    /\ result[c] = Thrown("primary")
    /\ sends[c] = 1
    /\ refreshes[c] = 0
    /\ access_token = InitialAccess
    /\ refresh_token = InitialRefresh

\* C11: every request a call sends, the primary one and the retry, carries
\* Authorization: Bearer t, t being the access token stored when it is sent,
\* whatever headers the caller passed.
AuthorizationIsStoredToken ==
  [][\A c \in Callers :
       /\ (pc[c] = "idle" /\ pc'[c] = "primary" /\ access_token # Absent)
             => mergedHeaders'[c]["Authorization"] = Bearer(access_token)
       /\ (pc[c] = "refresh" /\ pc'[c] = "retry")
             => retryHeaders'[c]["Authorization"] = Bearer(access_token')]_vars

\* C12: a call made while no access token is stored, by a caller that passes
\* no Authorization header, sends its request without an Authorization header.
NoTokenNoAuthorization ==
  [][\A c \in Callers :
       (/\ pc[c] = "idle" /\ pc'[c] = "primary"
        /\ access_token = Absent
        /\ options'[c]["Authorization"] = Absent)
          => mergedHeaders'[c]["Authorization"] = Absent]_vars

NoTokenNoAuthorizationWitness ==
  \E c \in Callers :
    /\ sends[c] = 1
    /\ pc[c] = "primary"
    /\ access_token = Absent
    /\ options[c] = NoHeaders
    /\ mergedHeaders[c]["Content-Type"] = <<"application/json">>
    /\ mergedHeaders[c]["Authorization"] = Absent

\* C13: a header the caller passed, other than Authorization, is on the
\* primary request and on the retry with the caller's value; in particular
\* the caller's Content-Type replaces application/json.
CallerHeadersKept ==
  \A c \in Callers : \A h \in HeaderNames \ {"Authorization"} :
    (sends[c] >= 1 /\ options[c][h] # Absent)
       => /\ mergedHeaders[c][h] = options[c][h]
          /\ retryHeaders[c] # Absent => retryHeaders[c][h] = options[c][h]

CallerHeadersKeptWitness ==
  \E c \in Callers :
    /\ sends[c] = 2
    /\ options[c]["Content-Type"] = <<"text/plain">>
    /\ retryHeaders[c]["Content-Type"] = <<"text/plain">>
    /\ retryHeaders[c]["X-Trace"] = <<"trace">>

\* C14: the retry of a request whose 401 arrived while a refresh was in
\* flight is issued after that refresh has completed, and after the retries
\* of the requests whose 401 arrived earlier during the same refresh.
FifoReplay ==
  \A d \in Callers : \A o \in overlapped[d] :
    retryHeaders[d] # Absent
       => /\ pc[o] # "refresh"
          /\ \A c \in overlapped[d] : o \in overlapped[c] => retryHeaders[c] # Absent

\* C15: in the step in which a re-sent request fails, with an error status or
\* at transport level, the failure is the outcome of that call alone: the
\* stored tokens and the location stay, and no other call is settled.
RetryFailureIsolated ==
  [][\A c \in Callers :
       (/\ pc[c] = "retry" /\ pc'[c] # "retry"
        /\ (result'[c].kind = "throw" \/ result'[c].status # 200))
          => /\ pc'[c] = "done"
             /\ result'[c].from = "retry"
             /\ access_token' = access_token
             /\ refresh_token' = refresh_token
             /\ location' = location
             /\ \A o \in Callers \ {c} : (pc'[o] = pc[o] /\ result'[o] = result[o])]_vars

RetryFailureIsolatedWitness ==
  \E c, d \in Callers :
    /\ result[c] = Returned("retry", 401)
    /\ result[d] = Thrown("retry")
    /\ access_token \in NewAccessTokens
    /\ refresh_token = InitialRefresh
    /\ location = "/"

\* C20: with no login in between, a teardown is not undone: whenever the
\* refresh token is absent from the store, so is the access token.
TeardownNotUndone ==
  /\ refresh_token = Absent => access_token = Absent
  /\ location = "/login" => access_token = Absent

\* C16: when every network call eventually responds or fails, an invocation
\* that has sent its request eventually settles, and it issues at most three
\* network calls: the primary request, one refresh call and one retry.
EventuallySettles ==
  /\ \A c \in Callers : (pc[c] = "primary") ~> (pc[c] = "done")
  /\ [](\A c \in Callers :
          /\ sends[c] + refreshes[c] <= 3
          /\ pc[c] = "done" => result[c].kind \in {"return", "throw"})

EventuallySettlesWitness ==
  \E c \in Callers :
    /\ pc[c] = "done"
    /\ sends[c] + refreshes[c] = 3
    /\ result[c].kind = "return"

\* C17: in the step in which logout ends, whether its request was answered
\* ok, answered with an error status, or threw, both tokens are removed from
\* the store, user is null and the router is sent to /login.
LogoutAlwaysClears ==
  [][(logoutPc = "fetch" /\ logoutPc' # "fetch")
        => /\ logoutPc' = "done"
           /\ logoutOutcome' \in {"ok", "error", "threw"}
           /\ access_token' = Absent
           /\ refresh_token' = Absent
           /\ user' = NoUser
           /\ route' = "/login"]_vars

LogoutAlwaysClearsWitness ==
  /\ logoutPc = "done"
  /\ logoutOutcome = "threw"
  /\ loginOutcome = "ok"
  /\ access_token = Absent
  /\ refresh_token = Absent
  /\ user = NoUser
  /\ route = "/login"

\* C18: in the step in which login ends, it returns a value (it does not
\* throw); after an ok response both tokens are written and success is true;
\* after an error response or a failed request the store and the user are
\* as before and the value is {success: false, error}.
LoginStoresOnlyOnOk ==
  [][(loginPc = "fetch" /\ loginPc' # "fetch")
        => /\ loginPc' = "done"
           /\ loginResult'.kind = "return"
           /\ IF loginOutcome' = "ok"
              THEN /\ loginResult'.success
                   /\ access_token' = InitialAccess
                   /\ refresh_token' = InitialRefresh
              ELSE /\ loginOutcome' \in {"rejected", "threw"}
                   /\ ~loginResult'.success
                   /\ loginResult'.error # Absent
                   /\ access_token' = access_token
                   /\ refresh_token' = refresh_token
                   /\ user' = user]_vars

LoginStoresOnlyOnOkWitness ==
  /\ loginPc = "done"
  /\ loginOutcome = "rejected"
  /\ loginResult = [kind |-> "return", success |-> FALSE, error |-> <<"Login failed">>]
  /\ access_token = Absent
  /\ refresh_token = Absent
  /\ user = NoUser

\* C19: a submit-week request with force_submit true is only ever the second
\* request of a submitWeek run, sent for the same week as a first request
\* with force_submit false that was answered not ok with can_force_submit,
\* and after the user confirmed the warning dialog; when the first answer is
\* ok or lacks can_force_submit, or the user declines, none is sent.
ForceOnlyAfterConfirmedWarning ==
  /\ \A i \in 1..Len(submitRequests) :
       submitRequests[i].force
          => /\ i = 2
             /\ submitRequests[1] = SubmitRequest(submitRequests[2].week, FALSE)
             /\ firstAnswer = "can_force"
             /\ confirmed = <<TRUE, TRUE>>
  /\ (firstAnswer \in {"ok", "error", "threw"} \/ (Len(confirmed) = 2 /\ ~confirmed[2]))
        => \A i \in 1..Len(submitRequests) : ~submitRequests[i].force

ForceOnlyAfterConfirmedWarningWitness ==
  /\ Len(submitRequests) = 2
  /\ submitRequests[2].force
  /\ submitRequests[2].week # dateFrom
  /\ notification = "submitted with warnings"
  /\ submitPc = "idle"

\* C21: at app start with an expired access token and a valid refresh token,
\* once checkAuth and the page's loadData requests have completed, in any
\* interleaving, the refresh token is still stored and the stored access
\* token is a refreshed one.
StartupSessionSurvives ==
  (checkPc = "done" /\ \A c \in Callers : pc[c] = "done")
    => (refresh_token = InitialRefresh /\ access_token \in NewAccessTokens)

NoRequestForSubmittedEntry ==
  [][\A k \in Cells :
       (cellPc[k] = "idle" /\ cellPc'[k] # "idle")
         => ExistingTimesheet(timesheets, k) # "submitted"]_vars

\* A positive value was entered in the cell of a submitted entry:
\* saveTimesheet refused it and nothing is in flight for the cell.
NoRequestForSubmittedEntryWitness ==
  \E k \in Cells :
    /\ ExistingTimesheet(timesheets, k) = "submitted"
    /\ HoursPositive(tableData[k])
    /\ notification = "cannot edit submitted"
    /\ cellPc[k] = "idle"

\* C24: in TimesheetTable, whenever some cell holds an editing value that
\* differs from its saved value, hasUnsavedChanges() is true and the Submit
\* Week button is disabled.
UnsavedEditDisablesSubmit ==
  (\E k \in Cells :
     /\ CellKeyOf(k) \in DOMAIN editingValues
     /\ editingValues[CellKeyOf(k)] # tableData[k])
    => (HasUnsavedChanges(editingValues, tableData) /\ SubmitDisabled)

\* C28: every cell that handleInputBlur added to currentlySaving leaves it
\* once onCellChange has settled, resolved or thrown: no cell stays in
\* currentlySaving forever, and none is in it without a call in flight.
SavingCellReleased ==
  /\ \A k \in Cells : (CellKeyOf(k) \in currentlySaving) ~> (CellKeyOf(k) \notin currentlySaving)
  /\ [](\A k \in Cells : CellKeyOf(k) \in currentlySaving => cellPc[k] = "called")

\* A changed cell went through a save that threw: its value was handed to
\* onCellChange, its editing value is still held, and it is not saving.
SavingCellReleasedWitness ==
  \E k \in Cells :
    /\ tableData[k] # ""
    /\ CellKeyOf(k) \in DOMAIN editingValues
    /\ cellPc[k] = "idle"
    /\ CellKeyOf(k) \notin currentlySaving
    /\ IsCellEditable(k)

\* C25: AdminUsers.handleDelete never sends a DELETE request for the account
\* of the logged-in user, in every ordering of the profile load, the list
\* load and the delete action.
NeverDeletesOwnAccount == SelfId \notin deleteRequests

\* C26: AdminLayout sets isAdmin and renders its children only for a user
\* with admin access: designation manager, director or senior_manager,
\* is_admin or is_staff true, or a name or email containing 'admin'.
AdminContentOnlyForAdmins ==
  (isAdmin \/ RendersChildren) => AdminCriteria(layoutUser)

\* C27: submitWeek (the version with the minimum-hours check) sends a
\* submit-week request only when the timesheets list has a draft entry, the
\* hours of tableData total at least 40 and the user confirmed the dialog;
\* called without a draft, with fewer hours, or declined at the dialog, it
\* returns with nothing sent and saving not set.
SubmitNeedsDraftHoursConfirm ==
  [][/\ (submitPc' # submitPc /\ submitPc' \in {"first", "force"})
          => /\ DraftTimesheets(timesheets) # {}
             /\ GetTotalHours(tableData) >= MinimumHours
             /\ Len(confirmed') >= 1
             /\ confirmed'[1] = TRUE
     /\ ( /\ submitPc = "idle"
          /\ \/ DraftTimesheets(timesheets) = {}
             \/ GetTotalHours(tableData) < MinimumHours
             \/ confirmed' = <<FALSE>> )
          => /\ submitPc' = "idle"
             /\ saving = FALSE
             /\ saving' = FALSE
             /\ submitRequests' \in {<<>>, submitRequests}]_vars

\* submitWeek was called on a week with a draft entry and fewer than 40
\* hours: the notification is shown, nothing was sent, saving is not set.
SubmitNeedsDraftHoursConfirmWitness ==
  /\ notification = "too few hours"
  /\ DraftTimesheets(timesheets) # {}
  /\ GetTotalHours(tableData) > 0
  /\ GetTotalHours(tableData) < MinimumHours
  /\ submitRequests = <<>>
  /\ submitPc = "idle"
  /\ saving = FALSE

====
